---- MODULE Spec2Model ----
(***************************************************************************)
(* Model of client/project_files_monitor.py: ProjectFilesMonitor, the      *)
(* watchman subscriber of the pyre client.  A process holds a few monitor  *)
(* objects; each is constructed once, its _subscriptions property is read  *)
(* through functools.lru_cache(1), and _handle_response logs what watchman *)
(* sends.                                                                  *)
(***************************************************************************)
EXTENDS FiniteSets, Naturals, Sequences, TLC

\* ------------------------------------------------------------------ bounds
MaxLen == 2       \* longest configuration.extensions list
MaxCalls == 2     \* executions of the _subscriptions body per monitor
MaxLog == 2       \* log records written by _handle_response

\* --------------------------------------------------------------- universe
None == "None"
Instances == {"m1", "m2"}
ExtraExts == {"py", "thrift"}
AllExts == {"py", "pyi"} \cup ExtraExts
Dirs == {"/", "/repo", "/repo/src", "/repo/src/sub"}
AnalysisDirs == {"shared_analysis_directory"}
Responses == {"{}", "{'files': ['a.py'], 'is_fresh_instance': False}"}
ExtensionLists == UNION {[1..n -> ExtraExts] : n \in 0..MaxLen}
ProjectExtensionLists == {<<>>, <<"thrift">>, <<"thrift", "py">>}
OtherFiles == [d \in Dirs |-> IF d = "/repo" THEN {".pyre_configuration"} ELSE {}]
ProjectMarkers == {"/repo", "/repo/src/sub"}

VARIABLES
    files,                \* the file system: directory -> names of the files in it
    hashSeed,             \* the process's string hashing: the order sets iterate in
    constructed,          \* the monitors __init__ has run for
    _arguments,
    _configuration,
    _analysis_directory,
    _extensions,
    _watchman_path,
    cache,                \* the entries of functools.lru_cache(1), most recent first
    calls,                \* per monitor, executions of the _subscriptions body
    log,                  \* the records handed to LOG
    exit_status,          \* <<>> while the process runs, else <<the sys.exit code>>
    last                  \* the operation that ran last and what it gave back

vars == <<files, hashSeed, constructed, _arguments, _configuration,
          _analysis_directory, _extensions, _watchman_path, cache, calls,
          log, exit_status, last>>

fields == <<_arguments, _configuration, _analysis_directory, _extensions,
            _watchman_path>>

\* ------------------------------------------------------- python primitives
\* list -> set, element by element
RECURSIVE set_of_list(_)
set_of_list(list) ==
    IF list = <<>> THEN {}
    ELSE {Head(list)} \cup set_of_list(Tail(list))

\* iteration over a set of strings: the order the process's hashing gives
iterate(s) == SelectSeq(hashSeed, LAMBDA e : e \in s)

\* truth value of an Optional[str]
truthy_inverted(x) == x = None \/ x = ""

truthy(x) == x # None /\ x # ""

\* ----------------------------------------------------- filesystem.find_root
Parent(d) ==
    CASE d = "/" -> "/"
      [] d = "/repo" -> "/"
      [] d = "/repo/src" -> "/repo"
      [] d = "/repo/src/sub" -> "/repo/src"

RECURSIVE find_root(_, _)
find_root(original_directory, target_file) ==
    IF target_file \in files[original_directory] THEN original_directory
    ELSE IF Parent(original_directory) = original_directory THEN None
    ELSE find_root(Parent(original_directory), target_file)

\* ------------------------------------------------------ ProjectFilesMonitor
BaseExtensions == <<"py", "pyi">>

extensions_of_configured(configuration) ==
    set_of_list(configuration.extensions)

extensions_of(configuration) ==
    set_of_list(BaseExtensions \o configuration.extensions)

watchman_path_of_configuration(arguments) ==
    find_root(arguments.current_directory, ".pyre_configuration")

watchman_path_of(arguments) ==
    find_root(arguments.current_directory, ".watchmanconfig")

_name == "pyre_file_change_subscription"

NoArguments == [current_directory |-> None]
NoConfiguration == [extensions |-> <<>>]

Running == exit_status = <<>>

Construct(self, arguments, configuration, analysis_directory) ==
    /\ Running
    /\ self \notin constructed
    /\ constructed' = constructed \cup {self}
    /\ _arguments' = [_arguments EXCEPT ![self] = arguments]
    /\ _configuration' = [_configuration EXCEPT ![self] = configuration]
    /\ _analysis_directory' = [_analysis_directory EXCEPT ![self] = analysis_directory]
    /\ _extensions' = [_extensions EXCEPT ![self] = extensions_of(configuration)]
    /\ _watchman_path' = [_watchman_path EXCEPT ![self] = watchman_path_of(arguments)]
    /\ last' = [op |-> "__init__", self |-> self, outcome |-> "return",
                arg |-> None, returned |-> <<>>]
    /\ UNCHANGED <<files, hashSeed, cache, calls, log, exit_status>>

\* ---------------------------------------------- _subscriptions (the body)
suffix_clauses_base_only(extensions) ==
    [k \in 1..Len(iterate(extensions \cap {"py", "pyi"})) |->
        <<"suffix", iterate(extensions \cap {"py", "pyi"})[k]>>]

suffix_clauses(extensions) ==
    [k \in 1..Len(iterate(extensions)) |-> <<"suffix", iterate(extensions)[k]>>]

subscription_of(extensions) ==
    [expression |-> <<"allof", <<"type", "f">>, <<"not", "empty">>,
                      <<"anyof">> \o suffix_clauses(extensions)>>,
     fields |-> <<"name">>]

Subscription(root, name, subscription) ==
    [root |-> root, name |-> name, subscription |-> subscription]

\* the list the body returns; id tells one list object from another
subscriptions_body(self, id) ==
    [id |-> id,
     items |-> <<Subscription(_watchman_path[self], _name,
                              subscription_of(_extensions[self]))>>]

root_error_of_path(current_directory) ==
    [level |-> "ERROR",
     msg |-> "Could not find a watchman directory from the current directory (%s)",
     args |-> <<None>>]

root_error(current_directory) ==
    [level |-> "ERROR",
     msg |-> "Could not find a watchman directory from the current directory (%s)",
     args |-> <<current_directory>>]

exit_code == 0

\* --------------------------------------------------- functools.lru_cache(1)
maxsize == 1

cache_key_shared(self) == "_subscriptions"

cache_key(self) == self

cache_hits(key) == {k \in 1..Len(cache) : cache[k].key = key}

cache_store(key, result) ==
    SubSeq(<<[key |-> key, result |-> result]>> \o cache, 1,
           IF Len(cache) + 1 < maxsize THEN Len(cache) + 1 ELSE maxsize)

cache_touch(k) ==
    <<cache[k]>> \o SubSeq(cache, 1, k - 1) \o SubSeq(cache, k + 1, Len(cache))

\* --------------------------------------------- reading self._subscriptions
Access(self) ==
    /\ Running
    /\ self \in constructed
    /\ IF cache_hits(cache_key(self)) # {}
       THEN LET k == CHOOSE k \in cache_hits(cache_key(self)) : TRUE IN
            /\ cache' = cache_touch(k)
            /\ last' = [op |-> "_subscriptions", self |-> self, outcome |-> "return",
                        arg |-> None, returned |-> <<cache[k].result>>]
            /\ UNCHANGED <<calls, log, exit_status>>
       ELSE /\ calls[self] < MaxCalls
            /\ calls' = [calls EXCEPT ![self] = @ + 1]
            /\ IF ~truthy(_watchman_path[self])
               THEN /\ log' = Append(log, root_error(_arguments[self].current_directory))
                    /\ exit_status' = <<exit_code>>
                    /\ last' = [op |-> "_subscriptions", self |-> self,
                                outcome |-> "exit", arg |-> None, returned |-> <<>>]
                    /\ UNCHANGED cache
               ELSE LET result == subscriptions_body(self, <<self, calls'[self]>>) IN
                    /\ cache' = cache_store(cache_key(self), result)
                    /\ last' = [op |-> "_subscriptions", self |-> self,
                                outcome |-> "return", arg |-> None,
                                returned |-> <<result>>]
                    /\ UNCHANGED <<log, exit_status>>
    /\ UNCHANGED <<files, hashSeed, constructed, fields>>

\* -------------------------------------------------------- _handle_response
response_record_bare(response) ==
    [level |-> "ERROR", msg |-> "Received response from watchman", args |-> <<>>]

response_record(response) ==
    [level |-> "ERROR", msg |-> "Received response from watchman: %s",
     args |-> <<response>>]

HandleResponse(self, response) ==
    /\ Running
    /\ self \in constructed
    /\ Len(log) < MaxLog
    /\ log' = Append(log, response_record(response))
    /\ last' = [op |-> "_handle_response", self |-> self, outcome |-> "return",
                arg |-> response, returned |-> <<>>]
    /\ UNCHANGED <<files, hashSeed, constructed, fields, cache, calls, exit_status>>

\* ----------------------------------------------------------- specifications
Orderings(s) ==
    {f \in [1..Cardinality(s) -> s] : \A e \in s : \E k \in DOMAIN f : f[k] = e}

FilesWith(markers) ==
    [d \in Dirs |-> OtherFiles[d] \cup (IF d \in markers THEN {".watchmanconfig"} ELSE {})]

InitProcess ==
    /\ hashSeed \in Orderings(AllExts)
    /\ constructed = {}
    /\ _arguments = [i \in Instances |-> NoArguments]
    /\ _configuration = [i \in Instances |-> NoConfiguration]
    /\ _analysis_directory = [i \in Instances |-> None]
    /\ _extensions = [i \in Instances |-> {}]
    /\ _watchman_path = [i \in Instances |-> None]
    /\ cache = <<>>
    /\ calls = [i \in Instances |-> 0]
    /\ log = <<>>
    /\ exit_status = <<>>
    /\ last = [op |-> "start", self |-> None, outcome |-> "return",
               arg |-> None, returned |-> <<>>]

Init ==
    /\ files = FilesWith(ProjectMarkers)
    /\ InitProcess

New(lists) ==
    \E self \in Instances, d \in Dirs, l \in lists, a \in AnalysisDirs :
        Construct(self, [current_directory |-> d], [extensions |-> l], a)

Next ==
    \/ New(ProjectExtensionLists)
    \/ \E self \in Instances : Access(self)
    \/ \E self \in Instances, response \in Responses : HandleResponse(self, response)

Spec == Init /\ [][Next]_vars

\* construction alone, over every file system and every extension list
InitCtor ==
    /\ files \in {FilesWith(m) : m \in SUBSET Dirs}
    /\ InitProcess

NextCtor == New(ExtensionLists)

SpecCtor == InitCtor /\ [][NextCtor]_vars

\* ------------------------------------------------------------------ claims
AccessStep(self) == last'.op = "_subscriptions" /\ last'.self = self
Returned == last.op = "_subscriptions" /\ last.outcome = "return"
Absent(self) == _watchman_path[self] = None
Range(list) == {list[k] : k \in DOMAIN list}
Clauses(request) == Tail(request.subscription.expression[4])

\* C1: a monitor with a present watch root R and extensions E reads, as its
\* subscription list, exactly one request bound to R and to the name
\* "pyre_file_change_subscription", whose expression is
\* allof(type f, not empty, anyof(S)) with exactly one suffix clause per
\* element of E and whose fields are ["name"].
C1_OneRequest ==
    \A self \in constructed :
        (last.op = "_subscriptions" /\ last.self = self /\ ~Absent(self))
        => /\ last.outcome = "return"
           /\ Len(last.returned) = 1
           /\ Len(last.returned[1].items) = 1
           /\ LET request == last.returned[1].items[1]
                  expression == request.subscription.expression
              IN /\ request.root = _watchman_path[self]
                 /\ request.name = "pyre_file_change_subscription"
                 /\ Len(expression) = 4
                 /\ expression[1] = "allof"
                 /\ expression[2] = <<"type", "f">>
                 /\ expression[3] = <<"not", "empty">>
                 /\ expression[4][1] = "anyof"
                 /\ Len(Clauses(request)) = Cardinality(_extensions[self])
                 /\ \A k \in DOMAIN Clauses(request) :
                        /\ Len(Clauses(request)[k]) = 2
                        /\ Clauses(request)[k][1] = "suffix"
                        /\ Clauses(request)[k][2] \in _extensions[self]
                 /\ \A e \in _extensions[self] :
                        \E k \in DOMAIN Clauses(request) : Clauses(request)[k][2] = e
                 /\ request.subscription.fields = <<"name">>

C1_Witness ==
    /\ Returned
    /\ _arguments[last.self].current_directory = "/repo/src"
    /\ _watchman_path[last.self] = "/repo"
    /\ _extensions[last.self] = {"py", "pyi", "thrift"}

\* C2: reading the subscription list of a monitor whose watch root is absent
\* appends exactly one error record naming the starting directory, ends the
\* process with exit code 0, and returns nothing: no list, no Subscription.
C2_AbsentRootExits ==
    [][\A self \in constructed :
          (AccessStep(self) /\ Absent(self))
          => /\ Len(log') = Len(log) + 1
             /\ SubSeq(log', 1, Len(log)) = log
             /\ log'[Len(log')].level = "ERROR"
             /\ log'[Len(log')].args = <<_arguments[self].current_directory>>
             /\ exit_status' = <<0>>
             /\ last'.outcome = "exit"
             /\ last'.returned = <<>>
             /\ cache' = cache]_vars

C2_Witness ==
    /\ exit_status = <<0>>
    /\ last.op = "_subscriptions"
    /\ _arguments[last.self].current_directory = "/"
    /\ Len(log) = 2
    /\ log[1].args # log[2].args

\* C3: once a monitor's first read of the subscription list has succeeded,
\* every later read on it returns the identical cached list without running
\* the body again, so without the watch-root check, an error record or an exit.
C3_LaterReadsCached ==
    [][\A self \in constructed :
          (AccessStep(self) /\ calls[self] >= 1)
          => /\ calls' = calls
             /\ last'.outcome = "return"
             /\ last'.returned[1].id = <<self, 1>>
             /\ log' = log
             /\ exit_status' = <<>>]_vars

\* C4: over any sequence of reads, interleaved across monitors, the body of
\* the subscription list runs at most once for each monitor.
C4_AtMostOnce == \A self \in Instances : calls[self] <= 1

\* C5: for every configured list L of extra extensions (empty, with
\* duplicates, repeating "py") the extension set stored at construction is
\* {"py","pyi"} union set(L): non-empty, free of duplicates when iterated,
\* and the same for two lists with the same elements in another order.
C5_ExtensionSet ==
    /\ \A self \in constructed :
          /\ _extensions[self] = {"py", "pyi"} \cup Range(_configuration[self].extensions)
          /\ _extensions[self] # {}
          /\ Len(iterate(_extensions[self])) = Cardinality(_extensions[self])
    /\ \A a \in constructed, b \in constructed :
          Range(_configuration[a].extensions) = Range(_configuration[b].extensions)
          => _extensions[a] = _extensions[b]

C5_Witness ==
    /\ constructed = Instances
    /\ _configuration["m1"].extensions = <<"thrift", "py">>
    /\ _configuration["m2"].extensions = <<"py", "thrift">>

\* C9: if some ancestor of the starting directory D, D included, holds
\* ".watchmanconfig", the watch root stored at construction is the nearest
\* such ancestor; if none does, the stored watch root is absent.
Depth(d) ==
    CASE d = "/" -> 0
      [] d = "/repo" -> 1
      [] d = "/repo/src" -> 2
      [] d = "/repo/src/sub" -> 3

Ancestors(d) == {d, Parent(d), Parent(Parent(d)), Parent(Parent(Parent(d)))}

Marked(d) == {a \in Ancestors(d) : ".watchmanconfig" \in files[a]}

C9_NearestAncestor ==
    \A self \in constructed :
        LET marked == Marked(_arguments[self].current_directory) IN
        IF marked = {}
        THEN _watchman_path[self] = None
        ELSE /\ _watchman_path[self] \in marked
             /\ \A a \in marked : Depth(a) <= Depth(_watchman_path[self])

C9_Witness ==
    /\ constructed = Instances
    /\ _arguments["m1"].current_directory = "/repo/src/sub"
    /\ _watchman_path["m1"] = "/repo/src"
    /\ ".watchmanconfig" \in files["/"]
    /\ _arguments["m2"].current_directory = "/repo"
    /\ _watchman_path["m2"] = "/"

\* C6: handling a notification, in any state of the monitor, appends exactly
\* one error record holding the notification, raises nothing, does not end
\* the process, and leaves the extension set, the watch root and the memoized
\* subscription list as they were.
C6_HandleOnlyLogs ==
    [][last'.op = "_handle_response"
       => /\ Len(log') = Len(log) + 1
          /\ SubSeq(log', 1, Len(log)) = log
          /\ log'[Len(log')].level = "ERROR"
          /\ log'[Len(log')].args = <<last'.arg>>
          /\ last'.arg \in Responses
          /\ last'.outcome = "return"
          /\ exit_status' = <<>>
          /\ _extensions' = _extensions
          /\ _watchman_path' = _watchman_path
          /\ cache' = cache
          /\ calls' = calls]_vars

C6_Witness ==
    /\ last.op = "_handle_response"
    /\ Absent(last.self)
    /\ cache # <<>>
    /\ Len(log) = 2
    /\ log[1].args # log[2].args

\* C7: construction from a starting directory with no marker above it does
\* not log and does not end the process: the watch root is recorded as
\* absent, and the log-and-exit happens at the first read of that monitor's
\* subscription list, not before and not later.
C7_FatalOnlyAtFirstRead ==
    [][/\ last'.op = "__init__"
          => /\ log' = log
             /\ exit_status' = <<>>
             /\ cache' = cache
             /\ last'.outcome = "return"
             /\ last'.self \in constructed'
             /\ Marked(_arguments'[last'.self].current_directory) = {}
                => _watchman_path'[last'.self] = None
       /\ (exit_status = <<>> /\ exit_status' # <<>>)
          => /\ last'.op = "_subscriptions"
             /\ Absent(last'.self)
             /\ calls[last'.self] = 0
             /\ calls'[last'.self] = 1
       /\ \A self \in constructed' :
             (_watchman_path'[self] = None /\ calls'[self] >= 1)
             => exit_status' # <<>>]_vars

C7_Witness ==
    /\ exit_status # <<>>
    /\ constructed = Instances
    /\ \E self \in Instances :
          /\ self # last.self
          /\ Absent(self)
          /\ calls[self] = 0
          /\ calls[last.self] = 1

\* C8: the lifecycle of a monitor is one-way: Unsubscribed until its first
\* read, which makes it Subscribed (root present) or ends the process (root
\* absent); once Subscribed it stays Subscribed under every later operation.
State(self) ==
    IF cache_hits(cache_key(self)) # {} THEN "Subscribed"
    ELSE IF exit_status # <<>> THEN "ProcessExit"
    ELSE "Unsubscribed"

StateNext(self) ==
    IF \E k \in 1..Len(cache') : cache'[k].key = cache_key(self) THEN "Subscribed"
    ELSE IF exit_status' # <<>> THEN "ProcessExit"
    ELSE "Unsubscribed"

C8_OneWayLifecycle ==
    [][\A self \in constructed :
          /\ State(self) = "Subscribed" => StateNext(self) = "Subscribed"
          /\ State(self) = "ProcessExit" => StateNext(self) = "ProcessExit"
          /\ (State(self) = "Unsubscribed" /\ StateNext(self) = "Subscribed")
             => (AccessStep(self) /\ ~Absent(self))]_vars

\* C10: with two monitors of different watch roots or extension sets, under
\* any interleaving of their reads, a read that returns gives a request built
\* from the read monitor's own watch root and own extension set; the cache of
\* size 1 never hands one monitor the list computed for another.
C10_OwnList ==
    /\ Returned
       => /\ last.returned[1].id[1] = last.self
          /\ last.returned[1].items[1].root = _watchman_path[last.self]
          /\ {c[2] : c \in Range(Clauses(last.returned[1].items[1]))}
             = _extensions[last.self]
    /\ \A k \in DOMAIN cache :
          /\ cache[k].result.id[1] = cache[k].key
          /\ cache[k].result.items[1].root = _watchman_path[cache[k].key]

C10_Witness ==
    /\ Returned
    /\ last.self = "m1"
    /\ calls["m1"] = 2
    /\ calls["m2"] = 1
    /\ _watchman_path["m1"] # _watchman_path["m2"]
    /\ _extensions["m1"] # _extensions["m2"]

====
